---- MODULE Spec2Model ----
(***************************************************************************)
(* Model of the Vlibe edit-mode engine (edit-mode.ts): the module-level    *)
(* state, the browser objects it acts on (window/document listeners,       *)
(* timers, the two overlay nodes, the parent's inbox) and one action per   *)
(* entry point, event handler and timer callback.                          *)
(*                                                                         *)
(* Every handler is an operator from a state record to a state record, so  *)
(* that a handler that calls another one is the composition of the two.    *)
(* An action reads the current variables into a record (Cur), runs the     *)
(* handlers the browser would run, and commits the result.                 *)
(***************************************************************************)
EXTENDS Integers, Sequences, FiniteSets, TLC

VARIABLES
    isEditModeActive,     \* let isEditModeActive
    highlightOverlay,     \* let highlightOverlay : Null or the node's style
    selectionOverlay,     \* let selectionOverlay : Null or the node's style
    selectedElement,      \* let selectedElement  : Null or an event target
    lastHoveredElement,   \* let lastHoveredElement
    lastFrameTime,        \* let lastFrameTime
    readyInterval,        \* let readyInterval : NoTimer or a timer id
    readyAcknowledged,    \* let readyAcknowledged
    cleanupFn,            \* let cleanupFn : Null or "fn"
    initialized,          \* window.__VLIBE_EDIT_MODE_INITIALIZED__
    winListeners,         \* 'message' listeners registered on window
    docListeners,         \* listeners registered on document
    intervals,            \* live setInterval timers: [id, next]
    timeouts,             \* pending setTimeout timers: [id, at]
    timerSeq,             \* last timer id handed out by the browser
    bodyNodes,            \* overlay nodes appended to document.body, by id
    cursor,               \* document.body.style.cursor
    dom,                  \* the page's content elements
    sent,                 \* messages posted to window.parent by the last step
    threw,                \* the last step's handler let an exception escape
    returned,             \* what the last initEditMode() call returned
    now,                  \* performance.now() / the timers' clock, in ms
    lastOp,               \* history: the operation of the last step
    initCount,            \* history: initEditMode() calls that initialized
    advances,             \* history: clock advances so far
    initAt,               \* history: clock at the last initializing init
    readyCount,           \* history: EDIT_MODE_READY sent since that init
    ackSeen,              \* history: an EDIT_MODE_READY_ACK was handled
    ackSinceInit,         \* history: ... since the last initializing init
    disableInEffect,      \* history: an EDIT_MODE_DISABLE was handled and no
                          \* EDIT_MODE_ENABLE has been handled since
    lastMessage           \* history: the inbound message of the last step

vars == <<isEditModeActive, highlightOverlay, selectionOverlay, selectedElement,
          lastHoveredElement, lastFrameTime, readyInterval, readyAcknowledged,
          cleanupFn, initialized, winListeners, docListeners, intervals,
          timeouts, timerSeq, bodyNodes, cursor, dom, sent, threw, returned,
          now, lastOp, initCount, advances, initAt, readyCount, ackSeen,
          ackSinceInit, disableInEffect, lastMessage>>

----------------------------------------------------------------------------
(* Program constants *)

FRAME_DELAY == 16
READY_RETRY_MS == 500
READY_TIMEOUT_MS == 30000

Null == "null"
NoTimer == 0

HIGHLIGHT_ID == "__vlibe_edit_highlight__"
SELECTION_ID == "__vlibe_edit_selection__"

----------------------------------------------------------------------------
(* Bounds of the model *)

\* initEditMode() calls that perform an initialization
MaxInits == 2
\* clock advances explored by Spec (each jumps to the next timer deadline)
MaxAdvance == 1
\* clock advances explored by SpecHandshake: the 60 retry ticks of one
\* init, the 30 s timeout, and one more
MaxTicks == 62
\* performance.now() when the script first runs (ms after the time origin)
LoadTime == 20
\* short waits explored by SpecPointer (each of 6 or 10 ms)
MaxElapse == 3
\* child nodes of the element whose text SpecText changes
MaxChildren == 3
\* elements under <body> in the pages of SpecSelector
MaxNodes == 2

----------------------------------------------------------------------------
(* The page *)

\* a child node: a text node (nodeType 3) with its data, or an element
\* (nodeType 1), named by `element`
TextNode(data) == [nodeType |-> 3, textContent |-> data, element |-> Null]
ElementNode(e) == [nodeType |-> 1, textContent |-> "", element |-> e]

\* an element: tag name, id, class tokens (className split on white space),
\* inline style (the value of the one property "color"), child nodes, src
\* attribute and inline background-image
Element(tag, id, classes, children) ==
    [tagName |-> tag, id |-> id, className |-> classes, style |-> "",
     childNodes |-> children, src |-> "", backgroundImage |-> ""]

\* the page of Spec and SpecHandshake:
\*   <html><body><p id="e1">old</p><img id="e2" src="/a.png"></body></html>
InitialDom ==
    [e \in {"HTML", "BODY", "e1", "e2"} |->
        CASE e = "HTML" -> Element("HTML", "", <<>>, <<ElementNode("BODY")>>)
          [] e = "BODY" -> Element("BODY", "", <<>>, <<ElementNode("e1"), ElementNode("e2")>>)
          [] e = "e1" -> Element("P", "e1", <<>>, <<TextNode("old")>>)
          [] e = "e2" -> [Element("IMG", "e2", <<>>, <<>>) EXCEPT !.src = "/a.png"]]

\* the elements of the page under <body>
ContentElements == DOMAIN dom \ {"HTML", "BODY"}

\* what an event's target can be: a content element, <body>, <html>, or one
\* of the two overlay nodes (named by their id)
EventTargets == ContentElements \cup {"BODY", "HTML", HIGHLIGHT_ID, SELECTION_ID}

----------------------------------------------------------------------------
(* Values *)

\* a null overlay reference; an overlay node is [display, rect], rect being
\* the element whose bounding rectangle the node was last positioned on
NullNode == [display |-> "null", rect |-> Null]
NewNode == [display |-> "none", rect |-> Null]

MessageFn == "handleMessage"
AckFn == "handleAckMessage"

MoveListener == [type |-> "mousemove", handler |-> "handleMouseMove", capture |-> FALSE]
ClickListener == [type |-> "click", handler |-> "handleClick", capture |-> TRUE]
LeaveListener == [type |-> "mouseleave", handler |-> "handleMouseLeave", capture |-> FALSE]

\* an inbound message: its type (Null when it has none) and its payload:
\* absent, a primitive value other than 0, "" and false (a string, say), or
\* an object (a function on its field names)
NoPayload == [kind |-> "absent", obj |-> <<>>]
PrimPayload == [kind |-> "prim", obj |-> <<>>]
ObjPayload(o) == [kind |-> "obj", obj |-> o]
Msg(type, payload) == [type |-> type, payload |-> payload]

\* the value of lastMessage after a step that handles no inbound message
NoMessage == Msg("none", NoPayload)

\* 'f' in payload, for every f of fields; throws on a primitive payload
HasFields(payload, fields) == payload.kind = "obj" /\ fields \subseteq DOMAIN payload.obj

----------------------------------------------------------------------------
(* The state record the handlers work on *)

Cur ==
    [isEditModeActive |-> isEditModeActive, highlightOverlay |-> highlightOverlay,
     selectionOverlay |-> selectionOverlay, selectedElement |-> selectedElement,
     lastHoveredElement |-> lastHoveredElement, lastFrameTime |-> lastFrameTime,
     readyInterval |-> readyInterval, readyAcknowledged |-> readyAcknowledged,
     cleanupFn |-> cleanupFn, initialized |-> initialized,
     winListeners |-> winListeners, docListeners |-> docListeners,
     intervals |-> intervals, timeouts |-> timeouts, timerSeq |-> timerSeq,
     bodyNodes |-> bodyNodes, cursor |-> cursor, dom |-> dom,
     sent |-> <<>>, threw |-> FALSE, returned |-> "none", now |-> now]

Commit(s) ==
    /\ isEditModeActive' = s.isEditModeActive
    /\ highlightOverlay' = s.highlightOverlay
    /\ selectionOverlay' = s.selectionOverlay
    /\ selectedElement' = s.selectedElement
    /\ lastHoveredElement' = s.lastHoveredElement
    /\ lastFrameTime' = s.lastFrameTime
    /\ readyInterval' = s.readyInterval
    /\ readyAcknowledged' = s.readyAcknowledged
    /\ cleanupFn' = s.cleanupFn
    /\ initialized' = s.initialized
    /\ winListeners' = s.winListeners
    /\ docListeners' = s.docListeners
    /\ intervals' = s.intervals
    /\ timeouts' = s.timeouts
    /\ timerSeq' = s.timerSeq
    /\ bodyNodes' = s.bodyNodes
    /\ cursor' = s.cursor
    /\ dom' = s.dom
    /\ sent' = s.sent
    /\ threw' = s.threw
    /\ returned' = s.returned
    /\ now' = s.now

\* EventTarget.addEventListener / removeEventListener: a target keeps a list
\* of registrations; adding one that is already there (same type, callback
\* and capture flag) is ignored, removing one that is not there is a no-op
Registered(list, l) == \E i \in 1..Len(list) : list[i] = l
addEventListener(list, l) == IF Registered(list, l) THEN list ELSE Append(list, l)
removeEventListener(list, l) == SelectSeq(list, LAMBDA x : x # l)

\* window.parent.postMessage(m, '*')
postMessage(s, m) == [s EXCEPT !.sent = Append(@, m)]

\* clearInterval(id): cancelling a timer that is not live is a no-op
clearInterval(s, id) == [s EXCEPT !.intervals = {i \in @ : i.id # id}]

----------------------------------------------------------------------------
(* The document as the engine reads it *)

IsOverlay(target) == target \in {HIGHLIGHT_ID, SELECTION_ID}

\* element.tagName, element.id and the class tokens of element.className;
\* an overlay is a <div> carrying its id
tagName(s, e) == IF IsOverlay(e) THEN "DIV" ELSE s.dom[e].tagName
elementId(s, e) == IF IsOverlay(e) THEN e ELSE s.dom[e].id
classTokens(s, e) == IF IsOverlay(e) THEN <<>> ELSE s.dom[e].className

\* the overlay nodes that are in the document; appendChild puts them after
\* the page's own children of <body>
OverlayNodes(s) ==
    SelectSeq(<<HIGHLIGHT_ID, SELECTION_ID>>, LAMBDA n : s.bodyNodes[n] > 0)

\* parent.children: the element children, in order
children(s, p) ==
    IF IsOverlay(p) THEN <<>>
    ELSE LET nodes == SelectSeq(s.dom[p].childNodes, LAMBDA n : n.nodeType = 1)
             own == [i \in 1..Len(nodes) |-> nodes[i].element]
         IN  IF p = "BODY" THEN own \o OverlayNodes(s) ELSE own

\* element.parentNode, reduced to the elements: Null for a detached element
\* and for <html>, whose parent is the document with <html> as only child
parentNode(s, e) ==
    IF IsOverlay(e) THEN (IF s.bodyNodes[e] > 0 THEN "BODY" ELSE Null)
    ELSE IF \E p \in DOMAIN s.dom : \E i \in 1..Len(s.dom[p].childNodes) :
                s.dom[p].childNodes[i] = ElementNode(e)
         THEN CHOOSE p \in DOMAIN s.dom : \E i \in 1..Len(s.dom[p].childNodes) :
                s.dom[p].childNodes[i] = ElementNode(e)
         ELSE Null

\* Array.from(parent.children).filter(el => el.tagName === current.tagName)
sameTagSiblings(s, e) ==
    LET p == parentNode(s, e)
    IN  IF p = Null THEN <<e>>
        ELSE SelectSeq(children(s, p), LAMBDA c : tagName(s, c) = tagName(s, e))

indexOf(list, x) == CHOOSE i \in 1..Len(list) : list[i] = x

\* the elements of the document in document order
RECURSIVE preorder(_, _)
preorder(s, list) ==
    IF list = <<>> THEN <<>>
    ELSE <<Head(list)>> \o preorder(s, children(s, Head(list))) \o preorder(s, Tail(list))

documentOrder(s) == preorder(s, <<"HTML">>)

----------------------------------------------------------------------------
(* Identity resolver *)

\* String.prototype.toLowerCase on the tag names of the model
toLowerCase(tag) ==
    CASE tag = "DIV" -> "div" [] tag = "P" -> "p" [] tag = "IMG" -> "img"
      [] tag = "SPAN" -> "span" [] tag = "BODY" -> "body" [] tag = "HTML" -> "html"
      [] OTHER -> tag

\* CSS.escape on the identifiers of the model: a leading digit becomes a
\* code-point escape, a character that is not a name character gets a
\* backslash; CSSunescape is what the selector parser reads back
CSSescape(ident) ==
    CASE ident = "1a" -> "\\31 a"
      [] ident = "a.b" -> "a\\.b"
      [] ident = "md:c" -> "md\\:c"
      [] OTHER -> ident

CSSunescape(text) ==
    CASE text = "\\31 a" -> "1a"
      [] text = "a\\.b" -> "a.b"
      [] text = "md\\:c" -> "md:c"
      [] OTHER -> text

\* c.includes(':')
includesColon(c) == c \in {"md:c"}

\* a selector is a list of compound selectors joined by " > ", each one a
\* tag name, an "#id", ".class" parts and an ":nth-of-type(n)" part, every
\* part optional ("" / <<>> / 0 when absent)
Compound(tag, id, classes, nth) == [tag |-> tag, id |-> id, classes |-> classes, nth |-> nth]

\* mutant of selectorPath: no ":nth-of-type" part is ever added
RECURSIVE selectorPath_NoNth(_, _, _)
selectorPath_NoNth(s, current, path) ==
    IF current = Null THEN path
    ELSE IF elementId(s, current) # ""
    THEN <<Compound("", CSSescape(elementId(s, current)), <<>>, 0)>> \o path
    ELSE LET classes == SelectSeq(classTokens(s, current), LAMBDA c : ~includesColon(c))
             two == SubSeq(classes, 1, IF Len(classes) < 2 THEN Len(classes) ELSE 2)
             parent == parentNode(s, current)
             path1 == <<Compound(toLowerCase(tagName(s, current)), "",
                                 [i \in 1..Len(two) |-> CSSescape(two[i])], 0)>> \o path
         IN  IF parent = "BODY"
             THEN <<Compound("body", "", <<>>, 0)>> \o path1
             ELSE selectorPath_NoNth(s, parent, path1)

\* the loop of getSelector, from `current` upward with `path` built so far
RECURSIVE selectorPath(_, _, _)
selectorPath(s, current, path) ==
    IF current = Null THEN path
    ELSE IF elementId(s, current) # ""
    THEN <<Compound("", CSSescape(elementId(s, current)), <<>>, 0)>> \o path
    ELSE LET classes == SelectSeq(classTokens(s, current), LAMBDA c : ~includesColon(c))
             two == SubSeq(classes, 1, IF Len(classes) < 2 THEN Len(classes) ELSE 2)
             parent == parentNode(s, current)
             siblings == sameTagSiblings(s, current)
             nth == IF parent # Null /\ Len(siblings) > 1
                    THEN indexOf(siblings, current) ELSE 0
             path1 == <<Compound(toLowerCase(tagName(s, current)), "",
                                 [i \in 1..Len(two) |-> CSSescape(two[i])], nth)>> \o path
         IN  IF parent = "BODY"
             THEN <<Compound("body", "", <<>>, 0)>> \o path1
             ELSE selectorPath(s, parent, path1)

getSelector(s, element) ==
    IF element = Null THEN <<>> ELSE selectorPath(s, element, <<>>)

\* the descriptor, without its xpath, text, computed styles and rectangle
NullInfo == [tagName |-> "null", className |-> <<>>, id |-> "", selector |-> <<>>,
             imageSrc |-> ""]

getElementInfo(s, element) ==
    IF element = Null THEN NullInfo
    ELSE [tagName |-> toLowerCase(tagName(s, element)),
          className |-> classTokens(s, element),
          id |-> elementId(s, element),
          selector |-> getSelector(s, element),
          imageSrc |-> IF tagName(s, element) = "IMG" THEN s.dom[element].src ELSE ""]

----------------------------------------------------------------------------
(* document.querySelector *)

\* a selector the browser cannot parse: the empty string, or one with a
\* part that is no identifier
IsValidSelector(selector) ==
    /\ selector # <<>>
    /\ \A i \in 1..Len(selector) : selector[i].tag # "]["

compoundMatches(s, e, c) ==
    /\ c.tag # "" => toLowerCase(tagName(s, e)) = c.tag
    /\ c.id # "" => elementId(s, e) = CSSunescape(c.id)
    /\ \A i \in 1..Len(c.classes) :
          \E j \in 1..Len(classTokens(s, e)) : classTokens(s, e)[j] = CSSunescape(c.classes[i])
    /\ c.nth # 0 => indexOf(sameTagSiblings(s, e), e) = c.nth

\* e matches the first k compounds of the selector, child after parent
RECURSIVE selectorMatches(_, _, _, _)
selectorMatches(s, e, selector, k) ==
    /\ compoundMatches(s, e, selector[k])
    /\ k > 1 => LET p == parentNode(s, e)
                IN  p # Null /\ selectorMatches(s, p, selector, k - 1)

\* the first match in document order, Null for no match, "SyntaxError"
\* (thrown) for a selector the browser cannot parse
querySelector(s, selector) ==
    IF ~IsValidSelector(selector) THEN "SyntaxError"
    ELSE LET hits == SelectSeq(documentOrder(s),
                               LAMBDA e : selectorMatches(s, e, selector, Len(selector)))
         IN  IF hits = <<>> THEN Null ELSE Head(hits)

----------------------------------------------------------------------------
(* Overlay renderer *)

createHighlightOverlay(s) ==
    IF s.highlightOverlay # NullNode THEN s
    ELSE [s EXCEPT !.highlightOverlay = NewNode,
                   !.bodyNodes = [@ EXCEPT ![HIGHLIGHT_ID] = @ + 1]]

\* mutant of createSelectionOverlay: the existing node is not reused
createSelectionOverlay_NoReuse(s) ==
    [s EXCEPT !.selectionOverlay = NewNode,
              !.bodyNodes = [@ EXCEPT ![SELECTION_ID] = @ + 1]]

createSelectionOverlay(s) ==
    IF s.selectionOverlay # NullNode THEN s
    ELSE [s EXCEPT !.selectionOverlay = NewNode,
                   !.bodyNodes = [@ EXCEPT ![SELECTION_ID] = @ + 1]]

\* mutant of updateSelectionOverlay: a null element does not hide the node
updateSelectionOverlay_NoHide(s, element) ==
    LET s1 == IF s.selectionOverlay = NullNode THEN createSelectionOverlay(s) ELSE s
    IN  IF element = Null THEN s1
        ELSE [s1 EXCEPT !.selectionOverlay = [display |-> "block", rect |-> element]]

updateSelectionOverlay(s, element) ==
    LET s1 == IF s.selectionOverlay = NullNode THEN createSelectionOverlay(s) ELSE s
    IN  IF element = Null
        THEN IF s1.selectionOverlay # NullNode
             THEN [s1 EXCEPT !.selectionOverlay.display = "none"]
             ELSE s1
        ELSE [s1 EXCEPT !.selectionOverlay = [display |-> "block", rect |-> element]]

clearSelection(s) ==
    updateSelectionOverlay([s EXCEPT !.selectedElement = Null], Null)

updateHighlight(s, element) ==
    IF s.highlightOverlay = NullNode \/ element = Null
    THEN IF s.highlightOverlay # NullNode
         THEN [s EXCEPT !.highlightOverlay.display = "none"]
         ELSE s
    ELSE [s EXCEPT !.highlightOverlay = [display |-> "block", rect |-> element]]

----------------------------------------------------------------------------
(* Interaction controller *)

\* mutant of handleMouseMove: a processed event does not update lastFrameTime
handleMouseMove_NoStamp(s, target) ==
    IF ~s.isEditModeActive THEN s
    ELSE IF s.now - s.lastFrameTime < FRAME_DELAY THEN s
    ELSE IF IsOverlay(target) \/ tagName(s, target) = "HTML" \/ tagName(s, target) = "BODY"
         THEN s
         ELSE IF target # s.lastHoveredElement
              THEN postMessage(updateHighlight([s EXCEPT !.lastHoveredElement = target], target),
                               [type |-> "ELEMENT_HOVERED", payload |-> getElementInfo(s, target)])
              ELSE s

handleMouseMove(s, target) ==
    IF ~s.isEditModeActive THEN s
    ELSE IF s.now - s.lastFrameTime < FRAME_DELAY THEN s
    ELSE LET s1 == [s EXCEPT !.lastFrameTime = s.now]
         IN  IF IsOverlay(target) \/ tagName(s1, target) = "HTML" \/ tagName(s1, target) = "BODY"
             THEN s1
             ELSE IF target # s1.lastHoveredElement
                  THEN LET s2 == updateHighlight([s1 EXCEPT !.lastHoveredElement = target], target)
                           info == getElementInfo(s2, target)
                       IN  IF info # NullInfo
                           THEN postMessage(s2, [type |-> "ELEMENT_HOVERED", payload |-> info])
                           ELSE s2
                  ELSE s1

\* mutant of handleClick: a click on an overlay is not skipped
handleClick_NoSkip(s, target) ==
    IF ~s.isEditModeActive THEN s
    ELSE LET s1 == updateSelectionOverlay([s EXCEPT !.selectedElement = target], target)
             info == getElementInfo(s1, target)
         IN  postMessage(s1, [type |-> "ELEMENT_CLICKED", payload |-> info])

handleClick(s, target) ==
    IF ~s.isEditModeActive THEN s
    ELSE IF IsOverlay(target) THEN s
    ELSE LET s1 == updateSelectionOverlay([s EXCEPT !.selectedElement = target], target)
             info == getElementInfo(s1, target)
         IN  IF info # NullInfo
             THEN postMessage(s1, [type |-> "ELEMENT_CLICKED", payload |-> info])
             ELSE s1

\* mutant of handleMouseLeave: leaving also clears the selection
handleMouseLeave_ClearsSelection(s) ==
    IF ~s.isEditModeActive THEN s
    ELSE LET s1 == clearSelection([s EXCEPT !.lastHoveredElement = Null])
             s2 == IF s1.highlightOverlay # NullNode
                   THEN [s1 EXCEPT !.highlightOverlay.display = "none"]
                   ELSE s1
         IN  postMessage(s2, [type |-> "ELEMENT_UNHOVERED", payload |-> NullInfo])

handleMouseLeave(s) ==
    IF ~s.isEditModeActive THEN s
    ELSE LET s1 == [s EXCEPT !.lastHoveredElement = Null]
             s2 == IF s1.highlightOverlay # NullNode
                   THEN [s1 EXCEPT !.highlightOverlay.display = "none"]
                   ELSE s1
         IN  postMessage(s2, [type |-> "ELEMENT_UNHOVERED", payload |-> NullInfo])

\* mutant of enableEditMode: the command toggles the flag
enableEditMode_Toggle(s) ==
    LET s1 == createSelectionOverlay(createHighlightOverlay(
                  [s EXCEPT !.isEditModeActive = ~@]))
    IN  [s1 EXCEPT !.cursor = "crosshair",
                   !.docListeners = addEventListener(addEventListener(addEventListener(@,
                                        MoveListener), ClickListener), LeaveListener)]

enableEditMode(s) ==
    LET s1 == createSelectionOverlay(createHighlightOverlay(
                  [s EXCEPT !.isEditModeActive = TRUE]))
    IN  [s1 EXCEPT !.cursor = "crosshair",
                   !.docListeners = addEventListener(addEventListener(addEventListener(@,
                                        MoveListener), ClickListener), LeaveListener)]

\* mutant of disableEditMode: the selection is not cleared
disableEditMode_KeepsSelection(s) ==
    LET s1 == [s EXCEPT !.isEditModeActive = FALSE, !.lastHoveredElement = Null]
        s2 == IF s1.highlightOverlay # NullNode
              THEN [s1 EXCEPT !.highlightOverlay.display = "none"]
              ELSE s1
    IN  [s2 EXCEPT !.cursor = "",
                   !.docListeners = removeEventListener(removeEventListener(removeEventListener(@,
                        MoveListener), ClickListener), LeaveListener)]

disableEditMode(s) ==
    LET s1 == clearSelection([s EXCEPT !.isEditModeActive = FALSE,
                                       !.lastHoveredElement = Null])
        s2 == IF s1.highlightOverlay # NullNode
              THEN [s1 EXCEPT !.highlightOverlay.display = "none"]
              ELSE s1
    IN  [s2 EXCEPT !.cursor = "",
                   !.docListeners = removeEventListener(removeEventListener(removeEventListener(@,
                        [type |-> "mousemove", handler |-> "handleMouseMove", capture |-> FALSE]),
                        [type |-> "click", handler |-> "handleClick", capture |-> TRUE]),
                        [type |-> "mouseleave", handler |-> "handleMouseLeave", capture |-> FALSE])]

----------------------------------------------------------------------------
(* Mutation applier: each body runs inside try/catch, so a querySelector  *)
(* that throws leaves the state as it was. An overlay node's inline style  *)
(* is modelled by its display only, so a change applied to one is left out *)

\* mutant of applyStyleChange: the exception of querySelector is not caught
applyStyleChange_NoCatch(s, selector, property, value) ==
    LET element == querySelector(s, selector)
    IN  IF element = "SyntaxError" THEN [s EXCEPT !.threw = TRUE]
        ELSE IF element # Null /\ property = "color" /\ element \in DOMAIN s.dom
             THEN [s EXCEPT !.dom[element].style = value]
             ELSE s

applyStyleChange(s, selector, property, value) ==
    LET element == querySelector(s, selector)
    IN  IF element = "SyntaxError" THEN s
        ELSE IF element # Null
             THEN IF property = "color" /\ element \in DOMAIN s.dom
                  THEN [s EXCEPT !.dom[element].style = value]
                  ELSE s
             ELSE s

FirstTextNode(nodes) ==
    IF \E i \in 1..Len(nodes) : nodes[i].nodeType = 3
    THEN CHOOSE i \in 1..Len(nodes) :
            /\ nodes[i].nodeType = 3
            /\ \A j \in 1..(i - 1) : nodes[j].nodeType # 3
    ELSE 0

\* mutant of applyTextChange: the whole content is always replaced
applyTextChange_Whole(s, selector, newText) ==
    LET element == querySelector(s, selector)
    IN  IF element = "SyntaxError" THEN s
        ELSE IF element # Null /\ element \in DOMAIN s.dom
             THEN [s EXCEPT !.dom[element].childNodes =
                               IF newText = "" THEN <<>> ELSE <<TextNode(newText)>>]
             ELSE s

applyTextChange(s, selector, newText) ==
    LET element == querySelector(s, selector)
    IN  IF element = "SyntaxError" THEN s
        ELSE IF element # Null /\ element \in DOMAIN s.dom
             THEN LET nodes == s.dom[element].childNodes
                      i == FirstTextNode(nodes)
                  IN  IF i # 0
                      THEN [s EXCEPT !.dom[element].childNodes[i].textContent = newText]
                      ELSE [s EXCEPT !.dom[element].childNodes =
                                        IF newText = "" THEN <<>> ELSE <<TextNode(newText)>>]
             ELSE s

applyImageChange(s, selector, newSrc) ==
    LET element == querySelector(s, selector)
    IN  IF element = "SyntaxError" THEN s
        ELSE IF element # Null /\ element \in DOMAIN s.dom
             THEN IF toLowerCase(tagName(s, element)) = "img"
                  THEN [s EXCEPT !.dom[element].src = newSrc]
                  ELSE [s EXCEPT !.dom[element].backgroundImage = newSrc]
             ELSE s

----------------------------------------------------------------------------
(* Channel / handshake *)

\* the body shared by the EDIT_MODE_READY_ACK case of handleMessage and by
\* handleAckMessage
markAcknowledged(s) ==
    LET s1 == [s EXCEPT !.readyAcknowledged = TRUE]
    IN  IF s1.readyInterval # NoTimer
        THEN [clearInterval(s1, s1.readyInterval) EXCEPT !.readyInterval = NoTimer]
        ELSE s1

\* `'selector' in payload` on a primitive payload throws a TypeError, which
\* handleMessage does not catch
applyCase(s, payload, fields, applied) ==
    IF payload.kind = "absent" THEN s
    ELSE IF payload.kind = "prim" THEN [s EXCEPT !.threw = TRUE]
    ELSE IF HasFields(payload, fields) THEN applied ELSE s

handleMessage(s, message) ==
    IF message.type = Null THEN s
    ELSE CASE message.type = "EDIT_MODE_ENABLE" -> enableEditMode(s)
           [] message.type = "EDIT_MODE_DISABLE" -> disableEditMode(s)
           [] message.type = "APPLY_STYLE_CHANGE" ->
                applyCase(s, message.payload, {"selector", "property", "value"},
                          applyStyleChange(s, message.payload.obj.selector,
                                           message.payload.obj.property,
                                           message.payload.obj.value))
           [] message.type = "APPLY_TEXT_CHANGE" ->
                applyCase(s, message.payload, {"selector", "newText"},
                          applyTextChange(s, message.payload.obj.selector,
                                          message.payload.obj.newText))
           [] message.type = "APPLY_IMAGE_CHANGE" ->
                applyCase(s, message.payload, {"selector", "newSrc"},
                          applyImageChange(s, message.payload.obj.selector,
                                           message.payload.obj.newSrc))
           [] message.type = "CLEAR_SELECTION" -> clearSelection(s)
           [] message.type = "EDIT_MODE_READY_ACK" -> markAcknowledged(s)
           [] OTHER -> s

handleAckMessage(s, message) ==
    IF message.type = "EDIT_MODE_ENABLE" \/ message.type = "EDIT_MODE_READY_ACK"
    THEN markAcknowledged(s)
    ELSE s

\* mutant of sendReady: the acknowledged flag is not consulted
sendReady_Unguarded(s) ==
    postMessage(s, [type |-> "EDIT_MODE_READY", payload |-> NullInfo])

sendReady(s) ==
    IF ~s.readyAcknowledged
    THEN postMessage(s, [type |-> "EDIT_MODE_READY", payload |-> NullInfo])
    ELSE s

\* mutant of readyTimeout: the timeout forgets to cancel the retry timer
readyTimeout_NoClear(s) == s

\* the callback of the setTimeout of initEditMode
readyTimeout(s) ==
    IF s.readyInterval # NoTimer
    THEN [clearInterval(s, s.readyInterval) EXCEPT !.readyInterval = NoTimer]
    ELSE s

\* mutant of cleanupFnBody: the acknowledgment listener stays registered
cleanupFnBody_KeepsAckListener(s) ==
    LET s1 == [s EXCEPT !.winListeners = removeEventListener(@, MessageFn)]
        s2 == IF s1.readyInterval # NoTimer
              THEN [clearInterval(s1, s1.readyInterval) EXCEPT !.readyInterval = NoTimer]
              ELSE s1
        s3 == IF s2.highlightOverlay # NullNode
              THEN [s2 EXCEPT !.highlightOverlay = NullNode,
                              !.bodyNodes = [@ EXCEPT ![HIGHLIGHT_ID] = @ - 1]]
              ELSE s2
        s4 == IF s3.selectionOverlay # NullNode
              THEN [s3 EXCEPT !.selectionOverlay = NullNode,
                              !.bodyNodes = [@ EXCEPT ![SELECTION_ID] = @ - 1]]
              ELSE s3
    IN  [s4 EXCEPT !.initialized = FALSE]

\* the closure initEditMode stores in cleanupFn and returns; it reads and
\* writes module-level state only, so every such closure behaves alike
cleanupFnBody(s) ==
    LET s1 == [s EXCEPT !.winListeners = removeEventListener(removeEventListener(@,
                                             MessageFn), AckFn)]
        s2 == IF s1.readyInterval # NoTimer
              THEN [clearInterval(s1, s1.readyInterval) EXCEPT !.readyInterval = NoTimer]
              ELSE s1
        s3 == IF s2.highlightOverlay # NullNode
              THEN [s2 EXCEPT !.highlightOverlay = NullNode,
                              !.bodyNodes = [@ EXCEPT ![HIGHLIGHT_ID] = @ - 1]]
              ELSE s2
        s4 == IF s3.selectionOverlay # NullNode
              THEN [s3 EXCEPT !.selectionOverlay = NullNode,
                              !.bodyNodes = [@ EXCEPT ![SELECTION_ID] = @ - 1]]
              ELSE s3
    IN  [s4 EXCEPT !.initialized = FALSE]

\* mutant of initEditMode: the already-initialized guard is missing
initEditMode_NoGuard(s, hasWindow) ==
    IF ~hasWindow THEN [s EXCEPT !.returned = "noop"]
    ELSE LET s1 == [s EXCEPT !.initialized = TRUE,
                             !.winListeners = addEventListener(addEventListener(@,
                                                  MessageFn), AckFn)]
             s2 == sendReady(s1)
             s3 == [s2 EXCEPT !.timerSeq = @ + 1,
                              !.intervals = @ \cup {[id |-> s2.timerSeq + 1,
                                                     next |-> s2.now + READY_RETRY_MS]},
                              !.readyInterval = s2.timerSeq + 1]
             s4 == [s3 EXCEPT !.timerSeq = @ + 1,
                              !.timeouts = @ \cup {[id |-> s3.timerSeq + 1,
                                                    at |-> s3.now + READY_TIMEOUT_MS]}]
         IN  [s4 EXCEPT !.cleanupFn = "fn", !.returned = "cleanupFn"]

\* mutant of initEditMode: the test for a window is missing
initEditMode_NoWindowTest(s, hasWindow) ==
    IF s.initialized
    THEN [s EXCEPT !.returned = IF s.cleanupFn # Null THEN "cleanupFn" ELSE "noop"]
    ELSE LET s1 == [s EXCEPT !.initialized = TRUE,
                             !.winListeners = addEventListener(addEventListener(@,
                                                  MessageFn), AckFn)]
             s2 == sendReady(s1)
             s3 == [s2 EXCEPT !.timerSeq = @ + 1,
                              !.intervals = @ \cup {[id |-> s2.timerSeq + 1,
                                                     next |-> s2.now + READY_RETRY_MS]},
                              !.readyInterval = s2.timerSeq + 1]
             s4 == [s3 EXCEPT !.timerSeq = @ + 1,
                              !.timeouts = @ \cup {[id |-> s3.timerSeq + 1,
                                                    at |-> s3.now + READY_TIMEOUT_MS]}]
         IN  [s4 EXCEPT !.cleanupFn = "fn", !.returned = "cleanupFn"]

initEditMode(s, hasWindow) ==
    IF ~hasWindow THEN [s EXCEPT !.returned = "noop"]
    ELSE IF s.initialized
    THEN [s EXCEPT !.returned = IF s.cleanupFn # Null THEN "cleanupFn" ELSE "noop"]
    ELSE LET s1 == [s EXCEPT !.initialized = TRUE,
                             !.winListeners = addEventListener(addEventListener(@,
                                                  MessageFn), AckFn)]
             s2 == sendReady(s1)
             s3 == [s2 EXCEPT !.timerSeq = @ + 1,
                              !.intervals = @ \cup {[id |-> s2.timerSeq + 1,
                                                     next |-> s2.now + READY_RETRY_MS]},
                              !.readyInterval = s2.timerSeq + 1]
             s4 == [s3 EXCEPT !.timerSeq = @ + 1,
                              !.timeouts = @ \cup {[id |-> s3.timerSeq + 1,
                                                    at |-> s3.now + READY_TIMEOUT_MS]}]
         IN  [s4 EXCEPT !.cleanupFn = "fn", !.returned = "cleanupFn"]

isEditModeEnabled(s) == s.isEditModeActive

getSelectedElementInfo(s) ==
    IF s.selectedElement # Null THEN getElementInfo(s, s.selectedElement) ELSE NullInfo

----------------------------------------------------------------------------
(* Initial state: the module has just been evaluated in a page *)

Loaded(page) ==
    /\ isEditModeActive = FALSE
    /\ highlightOverlay = NullNode
    /\ selectionOverlay = NullNode
    /\ selectedElement = Null
    /\ lastHoveredElement = Null
    /\ lastFrameTime = 0
    /\ readyInterval = NoTimer
    /\ readyAcknowledged = FALSE
    /\ cleanupFn = Null
    /\ initialized = FALSE
    /\ winListeners = <<>>
    /\ docListeners = <<>>
    /\ intervals = {}
    /\ timeouts = {}
    /\ timerSeq = 0
    /\ bodyNodes = [n \in {HIGHLIGHT_ID, SELECTION_ID} |-> 0]
    /\ cursor = ""
    /\ dom = page
    /\ sent = <<>>
    /\ threw = FALSE
    /\ returned = "none"
    /\ now = LoadTime
    /\ lastOp = "load"
    /\ initCount = 0
    /\ advances = 0
    /\ initAt = 0
    /\ readyCount = 0
    /\ ackSeen = FALSE
    /\ ackSinceInit = FALSE
    /\ disableInEffect = FALSE
    /\ lastMessage = NoMessage

Init == Loaded(InitialDom)

----------------------------------------------------------------------------
(* Actions *)

ReadyIn(msgs) == Cardinality({i \in 1..Len(msgs) : msgs[i].type = "EDIT_MODE_READY"})

\* the history variables of a step that is not an initializing init and
\* handles no inbound message
History(s, op) ==
    /\ lastOp' = op
    /\ readyCount' = readyCount + ReadyIn(s.sent)
    /\ lastMessage' = NoMessage
    /\ UNCHANGED <<initCount, initAt, ackSeen, ackSinceInit, disableInEffect>>

\* the host calls initEditMode()
InitEditMode(hasWindow) ==
    LET performs == hasWindow /\ ~initialized
        s == initEditMode(Cur, hasWindow)
    IN  /\ performs => initCount < MaxInits
        /\ Commit(s)
        /\ lastOp' = IF performs THEN "init" ELSE IF hasWindow THEN "init_again" ELSE "init_nowindow"
        /\ initCount' = IF performs THEN initCount + 1 ELSE initCount
        /\ initAt' = IF performs THEN now ELSE initAt
        /\ readyCount' = IF performs THEN ReadyIn(s.sent) ELSE readyCount
        /\ ackSinceInit' = IF performs THEN FALSE ELSE ackSinceInit
        /\ lastMessage' = NoMessage
        /\ UNCHANGED <<advances, ackSeen, disableInEffect>>

\* the host calls a teardown handle that an initializing init returned
Cleanup ==
    /\ cleanupFn # Null
    /\ LET s == cleanupFnBody(Cur)
       IN  Commit(s) /\ History(s, "cleanup")
    /\ UNCHANGED advances

\* the browser dispatches a 'message' event to the listeners on window, in
\* the order of their registration
RunListener(s, fn, message) ==
    IF fn = MessageFn THEN handleMessage(s, message) ELSE handleAckMessage(s, message)

RECURSIVE RunListeners(_, _, _)
RunListeners(s, list, message) ==
    IF list = <<>> THEN s
    ELSE RunListeners(RunListener(s, Head(list), message), Tail(list), message)

Dispatch(s, message) == RunListeners(s, s.winListeners, message)

Receive(message) ==
    /\ winListeners # <<>>
    /\ LET s == Dispatch(Cur, message)
       IN  /\ Commit(s)
           /\ lastOp' = IF message.type = Null THEN "message" ELSE message.type
           /\ lastMessage' = message
           /\ readyCount' = readyCount + ReadyIn(s.sent)
           /\ ackSeen' = (ackSeen \/ message.type = "EDIT_MODE_READY_ACK")
           /\ ackSinceInit' = (ackSinceInit \/ message.type = "EDIT_MODE_READY_ACK")
           /\ disableInEffect' = CASE message.type = "EDIT_MODE_DISABLE" -> TRUE
                                   [] message.type = "EDIT_MODE_ENABLE" -> FALSE
                                   [] OTHER -> disableInEffect
    /\ UNCHANGED <<initCount, initAt, advances>>

\* an overlay node can be an event's target only while it is in the document
TargetExists(target) == IsOverlay(target) => bodyNodes[target] > 0

MouseMove(target) ==
    /\ TargetExists(target)
    /\ LET s == IF Registered(docListeners, MoveListener) THEN handleMouseMove(Cur, target) ELSE Cur
       IN  Commit(s) /\ History(s, "mousemove")
    /\ UNCHANGED advances

Click(target) ==
    /\ TargetExists(target)
    /\ LET s == IF Registered(docListeners, ClickListener) THEN handleClick(Cur, target) ELSE Cur
       IN  Commit(s) /\ History(s, "click")
    /\ UNCHANGED advances

MouseLeave ==
    /\ LET s == IF Registered(docListeners, LeaveListener) THEN handleMouseLeave(Cur) ELSE Cur
       IN  Commit(s) /\ History(s, "mouseleave")
    /\ UNCHANGED advances

\* a live interval timer is due: its callback runs, and it is rescheduled
Tick ==
    \E i \in intervals :
        /\ i.next <= now
        /\ LET s0 == [Cur EXCEPT !.intervals = (@ \ {i}) \cup
                                    {[id |-> i.id, next |-> i.next + READY_RETRY_MS]}]
               s == sendReady(s0)
           IN  Commit(s) /\ History(s, "tick")
        /\ UNCHANGED advances

\* a pending timeout is due: it is removed and its callback runs
Timeout ==
    \E t \in timeouts :
        /\ t.at <= now
        /\ LET s == readyTimeout([Cur EXCEPT !.timeouts = @ \ {t}])
           IN  Commit(s) /\ History(s, "timeout")
        /\ UNCHANGED advances

Deadlines == {i.next : i \in intervals} \cup {t.at : t \in timeouts}

\* time passes, up to the next deadline of a timer; no timer is overdue
Advance(limit) ==
    /\ advances < limit
    /\ Deadlines # {}
    /\ \A d \in Deadlines : d > now
    /\ LET s == [Cur EXCEPT !.now = CHOOSE d \in Deadlines : \A e \in Deadlines : d <= e]
       IN  Commit(s) /\ History(s, "advance")
    /\ advances' = advances + 1

\* a few milliseconds pass between two events; no timer comes due
Elapse(dt) ==
    /\ advances < MaxElapse
    /\ \A d \in Deadlines : now + dt < d
    /\ LET s == [Cur EXCEPT !.now = now + dt]
       IN  Commit(s) /\ History(s, "elapse")
    /\ advances' = advances + 1

----------------------------------------------------------------------------
(* Inputs *)

Types == {"EDIT_MODE_ENABLE", "EDIT_MODE_DISABLE", "CLEAR_SELECTION",
          "EDIT_MODE_READY_ACK", "SOMETHING_ELSE"}

StylePayload(sel) == ObjPayload([selector |-> sel, property |-> "color", value |-> "red"])
TextPayload(sel) == ObjPayload([selector |-> sel, newText |-> "new"])
ImagePayload(sel) == ObjPayload([selector |-> sel, newSrc |-> "/b.png"])

\* every type of the dispatch table, an unknown type and no type; the three
\* apply commands cover the three outcomes of the lookup: a match, no match,
\* and a selector that makes querySelector throw
ById(id) == <<Compound("", CSSescape(id), <<>>, 0)>>
Malformed == <<Compound("][", "", <<>>, 0)>>

Messages ==
    {Msg(ty, NoPayload) : ty \in Types}
    \cup {Msg("APPLY_STYLE_CHANGE", StylePayload(ById("e1"))),
          Msg("APPLY_TEXT_CHANGE", TextPayload(ById("missing"))),
          Msg("APPLY_IMAGE_CHANGE", ImagePayload(Malformed))}

\* the pointer targets of Spec: a content element, <body> (which the hover
\* tracking skips) and an overlay node
SpecTargets == {"e1", "BODY", HIGHLIGHT_ID}
SpecClickTargets == {"e1", SELECTION_ID}

\* the waits of SpecPointer: 6 + 10 reaches FRAME_DELAY, 6 + 6 and 10 do not
Waits == {6, 10}

\* the commands of SpecPointer
PointerMessages == {Msg(ty, NoPayload) :
                      ty \in {"EDIT_MODE_ENABLE", "EDIT_MODE_DISABLE", "CLEAR_SELECTION"}}

\* the payloads of an apply command: absent, a primitive, an object without
\* the command's other fields, and complete ones whose selector matches
\* <p id="e1">, matches nothing, or cannot be parsed
CommandSelectors == {ById("e1"), ById("missing"), Malformed}

ApplyPayloads(type) ==
    {NoPayload, PrimPayload, ObjPayload([selector |-> ById("e1")])}
    \cup {CASE type = "APPLY_STYLE_CHANGE" -> StylePayload(sel)
            [] type = "APPLY_TEXT_CHANGE" -> TextPayload(sel)
            [] type = "APPLY_IMAGE_CHANGE" -> ImagePayload(sel) : sel \in CommandSelectors}

ApplyTypes == {"APPLY_STYLE_CHANGE", "APPLY_TEXT_CHANGE", "APPLY_IMAGE_CHANGE"}

\* the messages of SpecCommands: none of a type, of an unknown type, the
\* enable and disable commands, and the apply commands
CommandMessages ==
    {Msg(ty, NoPayload) : ty \in {Null, "SOMETHING_ELSE", "EDIT_MODE_ENABLE", "EDIT_MODE_DISABLE"}}
    \cup {Msg(ty, pl) : ty \in {"SOMETHING_ELSE"}, pl \in {PrimPayload}}
    \cup UNION {{Msg(ty, pl) : pl \in ApplyPayloads(ty)} : ty \in ApplyTypes}

\* the pages of SpecText: <div id="e1"> under <body> with up to MaxChildren
\* child nodes, each a text node ("old", or white space) or one of the
\* elements <span>in</span> and <img>, no element twice
ChildNodeChoices == {TextNode("old"), TextNode(" "), ElementNode("e2"), ElementNode("e3")}

ChildLists ==
    {l \in UNION {[1..k -> ChildNodeChoices] : k \in 0..MaxChildren} :
        \A i, j \in 1..Len(l) : (i # j /\ l[i].nodeType = 1) => l[i] # l[j]}

TextPage(list) ==
    [e \in {"HTML", "BODY", "e1", "e2", "e3"} |->
        CASE e = "HTML" -> Element("HTML", "", <<>>, <<ElementNode("BODY")>>)
          [] e = "BODY" -> Element("BODY", "", <<>>, <<ElementNode("e1")>>)
          [] e = "e1" -> Element("DIV", "e1", <<>>, list)
          [] e = "e2" -> Element("SPAN", "", <<>>, <<TextNode("in")>>)
          [] e = "e3" -> Element("IMG", "", <<>>, <<>>)]

TextPages == {TextPage(l) : l \in ChildLists}

\* the text changes of SpecText, all addressed to <div id="e1">
TextMessages ==
    {Msg("APPLY_TEXT_CHANGE", ObjPayload([selector |-> ById("e1"), newText |-> x])) :
        x \in {"new", ""}}

\* the pages of SpecSelector: MaxNodes elements under <body>, numbered in
\* document order, in every tree shape; each a <div> or a <p>; at most one
\* of them with an id and at most one with classes
NodeNames == <<"e1", "e2", "e3", "e4">>

RECURSIVE AncestorsOrSelf(_, _)
AncestorsOrSelf(par, k) == IF k = 0 THEN {0} ELSE {k} \cup AncestorsOrSelf(par, par[k])

\* par[k] is the number of k's parent, 0 for <body>
TreeShapes ==
    {par \in [1..MaxNodes -> 0..(MaxNodes - 1)] :
        /\ par[1] = 0
        /\ \A k \in 2..MaxNodes : par[k] \in AncestorsOrSelf(par, k - 1)}

ChildrenOf(par, k) ==
    LET kids == SelectSeq([c \in 1..MaxNodes |-> c], LAMBDA c : par[c] = k)
    IN  [i \in 1..Len(kids) |-> ElementNode(NodeNames[kids[i]])]

SelectorPage(par, tags, withId, withClasses) ==
    [e \in {"HTML", "BODY"} \cup {NodeNames[k] : k \in 1..MaxNodes} |->
        CASE e = "HTML" -> Element("HTML", "", <<>>, <<ElementNode("BODY")>>)
          [] e = "BODY" -> Element("BODY", "", <<>>, ChildrenOf(par, 0))
          [] OTHER ->
               LET k == CHOOSE k \in 1..MaxNodes : NodeNames[k] = e
               IN  Element(tags[k],
                           IF withId = k THEN "1a" ELSE "",
                           IF withClasses = k THEN <<"md:c", "a.b", "c", "d">> ELSE <<>>,
                           ChildrenOf(par, k))]

SelectorPages ==
    {SelectorPage(par, tags, withId, withClasses) :
        par \in TreeShapes, tags \in [1..MaxNodes -> {"DIV", "P"}],
        withId \in 0..MaxNodes, withClasses \in 0..MaxNodes}

\* the builder's part in the handshake
HandshakeMessages == {Msg("EDIT_MODE_READY_ACK", NoPayload)}

----------------------------------------------------------------------------
(* Specifications *)

\* every operation, over a short stretch of time
Next ==
    \/ InitEditMode(TRUE)
    \/ Cleanup
    \/ \E m \in Messages : Receive(m)
    \/ \E t \in SpecTargets : MouseMove(t)
    \/ \E t \in SpecClickTargets : Click(t)
    \/ MouseLeave
    \/ Tick
    \/ Timeout
    \/ Advance(MaxAdvance)

Spec == Init /\ [][Next]_vars

\* the handshake over its full 30 seconds
NextHandshake ==
    \/ InitEditMode(TRUE)
    \/ Cleanup
    \/ \E m \in HandshakeMessages : Receive(m)
    \/ Tick
    \/ Timeout
    \/ Advance(MaxTicks)

SpecHandshake == Init /\ [][NextHandshake]_vars

\* one instance, never torn down: the pointer events on every kind of
\* target, a few milliseconds apart
NextPointer ==
    \/ InitEditMode(TRUE)
    \/ \E m \in PointerMessages : Receive(m)
    \/ \E t \in EventTargets : MouseMove(t)
    \/ \E t \in EventTargets : Click(t)
    \/ MouseLeave
    \/ \E dt \in Waits : Elapse(dt)

SpecPointer == Init /\ [][NextPointer]_vars

\* the inbound commands with every kind of payload, in and out of a window
NextCommands ==
    \/ InitEditMode(TRUE)
    \/ InitEditMode(FALSE)
    \/ Cleanup
    \/ \E m \in CommandMessages : Receive(m)
    \/ Click("e1")

SpecCommands == Init /\ [][NextCommands]_vars

\* applyTextChange on elements with every arrangement of child nodes
InitText == \E page \in TextPages : Loaded(page)

NextText ==
    \/ InitEditMode(TRUE)
    \/ \E m \in TextMessages : Receive(m)

SpecText == InitText /\ [][NextText]_vars

\* the builder answers an ELEMENT_CLICKED with a style change addressed to
\* the selector of the descriptor it has just received
ApplyToClicked ==
    /\ Len(sent) = 1 /\ sent[1].type = "ELEMENT_CLICKED"
    /\ Receive(Msg("APPLY_STYLE_CHANGE", StylePayload(sent[1].payload.selector)))

\* getSelector and querySelector on every page of SelectorPages
InitSelector == \E page \in SelectorPages : Loaded(page)

NextSelector ==
    \/ InitEditMode(TRUE)
    \/ Receive(Msg("EDIT_MODE_ENABLE", NoPayload))
    \/ \E t \in ContentElements : Click(t)
    \/ ApplyToClicked

SpecSelector == InitSelector /\ [][NextSelector]_vars

----------------------------------------------------------------------------
(* Claims *)

\* the engine's variables and the browser objects it acts on: everything
\* but the outputs of a step (sent, threw, returned), the clock and the
\* history variables
engineVars == <<isEditModeActive, highlightOverlay, selectionOverlay, selectedElement,
                lastHoveredElement, lastFrameTime, readyInterval, readyAcknowledged,
                cleanupFn, initialized, winListeners, docListeners, intervals,
                timeouts, timerSeq, bodyNodes, cursor, dom>>

PointerOps == {"mousemove", "click", "mouseleave"}
NoOverlayNodes == bodyNodes[HIGHLIGHT_ID] = 0 /\ bodyNodes[SELECTION_ID] = 0
Hidden(node) == node.display \in {"null", "none"}
SentTypes == {sent[i].type : i \in 1..Len(sent)}

EnableMsg == Msg("EDIT_MODE_ENABLE", NoPayload)
DisableMsg == Msg("EDIT_MODE_DISABLE", NoPayload)
ClearMsg == Msg("CLEAR_SELECTION", NoPayload)

\* C1: once an EDIT_MODE_READY_ACK has been handled by the engine, no step
\* (a timer tick, an inbound message of any type, a later init) sends
\* EDIT_MODE_READY.
C1_NoReadyAfterAck == ackSeen => "EDIT_MODE_READY" \notin SentTypes

\* a retry timer ticks after the acknowledgment: the engine was torn down
\* and initialized again, and the new timer's callback runs
C1_Witness == ackSeen /\ lastOp = "tick" /\ initCount = 2

\* C2 (as claimed): an initializing init sends EDIT_MODE_READY at once; until
\* an EDIT_MODE_READY_ACK is handled, 30 s have passed since that init, or
\* the engine is torn down, the retry timer stays live and every tick of it
\* sends EDIT_MODE_READY.
C2_RetriesUntilAckOrTimeout ==
    /\ lastOp = "init" => "EDIT_MODE_READY" \in SentTypes
    /\ (initialized /\ ~ackSinceInit /\ now - initAt < READY_TIMEOUT_MS)
          => /\ readyInterval # NoTimer
             /\ \E i \in intervals : i.id = readyInterval
             /\ lastOp = "tick" => "EDIT_MODE_READY" \in SentTypes

\* C3: while no acknowledgment has arrived, EDIT_MODE_READY is never sent,
\* and no retry timer is live, later than 30 s after the init that started
\* the loop; an init is followed by at most 1 + 30000/500 announcements; and
\* once the loop has stopped the engine is still initialized, both message
\* listeners are registered, and the commands have their effect.
C3_LoopTerminates ==
    ~ackSeen =>
        /\ "EDIT_MODE_READY" \in SentTypes => now <= initAt + READY_TIMEOUT_MS
        /\ intervals # {} => now <= initAt + READY_TIMEOUT_MS
        /\ readyCount <= 1 + READY_TIMEOUT_MS \div READY_RETRY_MS
        /\ lastOp = "timeout" =>
              /\ readyInterval = NoTimer /\ intervals = {}
              /\ initialized => /\ winListeners = <<MessageFn, AckFn>>
                                /\ Dispatch(Cur, EnableMsg).isEditModeActive
                                /\ ~Dispatch(Dispatch(Cur, EnableMsg), DisableMsg).isEditModeActive
                                /\ Dispatch(Cur, Msg("APPLY_STYLE_CHANGE", StylePayload(ById("e1")))).dom["e1"].style = "red"
                                /\ Dispatch(Cur, ClearMsg).selectedElement = Null

\* the 30 s timeout of a never-acknowledged instance has just fired, after
\* the init's announcement and all 60 retries
C3_Witness ==
    /\ ~ackSeen /\ lastOp = "timeout" /\ initialized
    /\ readyCount = 1 + READY_TIMEOUT_MS \div READY_RETRY_MS
    /\ now = initAt + READY_TIMEOUT_MS

\* C4: an init while the engine is initialized returns the stored teardown
\* handle, sends nothing and changes no engine variable, listener, timer or
\* overlay node; running the handle's body from that state unregisters both
\* listeners, cancels the retry timer, removes the overlays and resets the
\* flag.
C4_ReinitReturnsHandle ==
    /\ [](lastOp = "init_again" =>
            /\ returned = "cleanupFn" /\ sent = <<>> /\ ~threw
            /\ LET s == cleanupFnBody(Cur)
               IN  /\ ~s.initialized /\ s.winListeners = <<>>
                   /\ s.intervals = {} /\ s.readyInterval = NoTimer
                   /\ s.highlightOverlay = NullNode /\ s.selectionOverlay = NullNode
                   /\ s.bodyNodes[HIGHLIGHT_ID] = 0 /\ s.bodyNodes[SELECTION_ID] = 0)
    /\ [][lastOp' = "init_again" => UNCHANGED engineVars]_vars

\* init is called again on an enabled engine with a selection, its retry
\* timer still live
C4_Witness ==
    /\ lastOp = "init_again" /\ selectedElement # Null
    /\ bodyNodes[SELECTION_ID] = 1 /\ timeouts # {}

\* C5: after teardown both message listeners are unregistered, no retry
\* timer is live, both overlay nodes are out of the document, the
\* initialized flag is reset and nothing was raised; running the teardown
\* body again from that state gives the same state.
C5_TeardownIdempotent ==
    lastOp = "cleanup" =>
        /\ winListeners = <<>>
        /\ intervals = {} /\ readyInterval = NoTimer
        /\ highlightOverlay = NullNode /\ selectionOverlay = NullNode /\ NoOverlayNodes
        /\ ~initialized /\ ~threw
        /\ cleanupFnBody(Cur) = Cur

\* teardown of an enabled instance that had both overlays in the document,
\* the selection overlay shown on the selected element
C5_Witness ==
    /\ lastOp = "cleanup" /\ selectedElement # Null /\ isEditModeActive

\* C6 (as claimed): after teardown the engine is Disabled with its references
\* cleared and its pointer listeners detached, and while it stays torn down
\* no pointer event sends a message or creates an overlay node.
C6_TeardownDisables ==
    /\ lastOp = "cleanup" =>
          /\ ~isEditModeActive
          /\ selectedElement = Null /\ lastHoveredElement = Null
          /\ docListeners = <<>>
    /\ (~initialized /\ lastOp \in PointerOps) => (sent = <<>> /\ NoOverlayNodes)

\* C7 (as claimed): every initializing init sends one EDIT_MODE_READY and
\* leaves the engine awaiting the acknowledgment, its retry timer live.
C7_InitAnnounces ==
    lastOp = "init" =>
        /\ Len(sent) = 1 /\ sent[1].type = "EDIT_MODE_READY"
        /\ ~readyAcknowledged
        /\ readyInterval # NoTimer

\* C8: from the handling of EDIT_MODE_DISABLE until the next
\* EDIT_MODE_ENABLE is handled, no pointer listener is registered, hover
\* target and selection are null, both overlays are hidden (or absent), the
\* cursor is the default, the engine is not active and no ELEMENT_* message
\* is sent.
C8_DisableDetaches ==
    disableInEffect =>
        /\ docListeners = <<>>
        /\ lastHoveredElement = Null /\ selectedElement = Null
        /\ Hidden(highlightOverlay) /\ Hidden(selectionOverlay)
        /\ cursor = ""
        /\ ~isEditModeActive
        /\ SentTypes \cap {"ELEMENT_HOVERED", "ELEMENT_CLICKED", "ELEMENT_UNHOVERED"} = {}

\* a click arrives after edit mode was enabled and then disabled (the
\* overlays exist, so there has been an enable)
C8_Witness ==
    /\ disableInEffect /\ lastOp \in PointerOps
    /\ bodyNodes[HIGHLIGHT_ID] = 1 /\ initialized

\* C9 (as claimed): with nothing selected, handling CLEAR_SELECTION changes
\* nothing: not the engine state, not the overlay nodes in the document.
C9_ClearIsNoOp ==
    (winListeners # <<>> /\ selectedElement = Null) =>
        LET s == Dispatch(Cur, ClearMsg)
        IN  s = Cur

\* C9 (amended): with nothing selected, handling CLEAR_SELECTION raises
\* nothing, sends nothing, and leaves the state as it was, except that a
\* selection overlay node that does not exist yet is created, hidden, and
\* appended to the document; the selection overlay is hidden afterwards,
\* and handling the command again changes nothing more.
C9_ClearCreatesHiddenOverlay ==
    /\ (winListeners # <<>> /\ selectedElement = Null) =>
          LET s == Dispatch(Cur, ClearMsg)
          IN  /\ ~s.threw /\ s.sent = <<>>
              /\ s = IF selectionOverlay = NullNode
                     THEN [Cur EXCEPT !.selectionOverlay = [display |-> "none", rect |-> Null],
                                      !.bodyNodes = [@ EXCEPT ![SELECTION_ID] = 1]]
                     ELSE Cur
              /\ s.selectionOverlay.display = "none"
              /\ Dispatch(s, ClearMsg) = s
    /\ lastOp = "CLEAR_SELECTION" =>
          /\ selectedElement = Null /\ selectionOverlay.display = "none"
          /\ bodyNodes[SELECTION_ID] = 1 /\ ~threw /\ sent = <<>>

\* CLEAR_SELECTION was handled before the first enable: the selection
\* overlay exists although no enable, disable or click has created it
C9_Witness ==
    /\ lastOp = "CLEAR_SELECTION" /\ bodyNodes[SELECTION_ID] = 1
    /\ bodyNodes[HIGHLIGHT_ID] = 0 /\ ~disableInEffect /\ docListeners = <<>>

\* C10: isEditModeEnabled() is false after load, true after each handled
\* EDIT_MODE_ENABLE and false after each handled EDIT_MODE_DISABLE; no other
\* step changes it; and handling EDIT_MODE_ENABLE again right after it was
\* handled changes nothing (one registration per pointer listener).
C10_ActiveFlag ==
    /\ [](/\ lastOp = "load" => ~isEditModeEnabled(Cur)
          /\ lastOp = "EDIT_MODE_ENABLE" =>
                /\ isEditModeEnabled(Cur)
                /\ docListeners = <<MoveListener, ClickListener, LeaveListener>>
                /\ Dispatch(Cur, EnableMsg) = Cur
          /\ lastOp = "EDIT_MODE_DISABLE" => ~isEditModeEnabled(Cur))
    /\ [][lastOp' \notin {"EDIT_MODE_ENABLE", "EDIT_MODE_DISABLE"}
             => isEditModeActive' = isEditModeActive]_vars

\* EDIT_MODE_ENABLE is handled while edit mode is already enabled and an
\* element is selected
C10_Witness ==
    /\ lastOp = "EDIT_MODE_ENABLE" /\ selectedElement # Null /\ lastHoveredElement # Null

\* C11: the selection is one element at most, and the selection overlay,
\* when shown, is on it; while edit mode is enabled a click on a target that
\* is no overlay makes the target the selection, whatever was selected
\* before, shows the selection overlay on it and sends one ELEMENT_CLICKED
\* carrying the target's descriptor; a click on an overlay changes nothing
\* and sends nothing; getSelectedElementInfo() is null when nothing is
\* selected, else a descriptor whose tag, id and selector are the selected
\* element's.
C11_ClickSelects ==
    /\ [](/\ selectionOverlay.display = "block" => selectionOverlay.rect = selectedElement
          /\ selectedElement = Null => getSelectedElementInfo(Cur) = NullInfo
          /\ selectedElement # Null =>
                LET info == getSelectedElementInfo(Cur)
                IN  /\ info.tagName = toLowerCase(tagName(Cur, selectedElement))
                    /\ info.id = elementId(Cur, selectedElement)
                    /\ querySelector(Cur, info.selector) = selectedElement)
    /\ [][\A t \in EventTargets :
            (isEditModeActive /\ Click(t)) =>
                IF IsOverlay(t)
                THEN UNCHANGED engineVars /\ sent' = <<>>
                ELSE /\ selectedElement' = t
                     /\ selectionOverlay' = [display |-> "block", rect |-> t]
                     /\ sent' = <<[type |-> "ELEMENT_CLICKED",
                                   payload |-> getElementInfo(Cur, t)]>>
                     /\ ~threw']_vars

\* a click selects <img id="e2"> while the hover target is another element
C11_Witness ==
    /\ lastOp = "click" /\ selectedElement = "e2" /\ lastHoveredElement = "e1"
    /\ Len(sent) = 1 /\ sent[1].payload.selector = ById("e2")

\* C12: a pointer-move less than 16 ms after the last processed one is
\* dropped: it changes nothing, sends nothing and schedules nothing; a
\* pointer-move that is processed records its clock reading, and that record
\* changes in no other step, so two processed events are at least 16 ms
\* apart; of two pointer-moves at most 10 ms apart at most one sends
\* ELEMENT_HOVERED or moves the highlight, whatever their targets; and
\* ELEMENT_HOVERED is sent by pointer-move steps only (nothing is replayed).
C12_HoverRateLimited ==
    /\ [](/\ lastFrameTime <= now
          /\ \A t1, t2 \in EventTargets : \A dt \in {0, 6, 10} :
                (TargetExists(t1) /\ TargetExists(t2) /\ Registered(docListeners, MoveListener)) =>
                    LET s1 == handleMouseMove(Cur, t1)
                        s2 == handleMouseMove([s1 EXCEPT !.now = @ + dt, !.sent = <<>>], t2)
                    IN  /\ ~(s1.sent # <<>> /\ s2.sent # <<>>)
                        /\ s1.highlightOverlay # highlightOverlay
                              => s2.highlightOverlay = s1.highlightOverlay)
    /\ [][\A t \in EventTargets :
            MouseMove(t) =>
                /\ now - lastFrameTime < FRAME_DELAY => (UNCHANGED engineVars /\ sent' = <<>>)
                /\ (isEditModeActive /\ now - lastFrameTime >= FRAME_DELAY) => lastFrameTime' = now
                /\ lastFrameTime' \in {lastFrameTime, now}]_vars
    /\ [][lastOp' # "mousemove" =>
            /\ lastFrameTime' = lastFrameTime
            /\ "ELEMENT_HOVERED" \notin {sent'[i].type : i \in 1..Len(sent')}]_vars

\* a pointer-move arrives on an enabled engine 6 or 10 ms after a processed
\* one and is dropped
C12_Witness ==
    /\ lastOp = "mousemove" /\ isEditModeActive
    /\ lastFrameTime > LoadTime /\ now - lastFrameTime \in {6, 10}
    /\ lastHoveredElement # Null /\ sent = <<>>

FailingApplies ==
    UNION {{Msg("APPLY_STYLE_CHANGE", StylePayload(sel)),
            Msg("APPLY_TEXT_CHANGE", TextPayload(sel)),
            Msg("APPLY_IMAGE_CHANGE", ImagePayload(sel))} : sel \in {ById("missing"), Malformed}}

\* C13: an apply command whose selector matches no element or cannot be
\* parsed raises nothing, sends nothing, and leaves the DOM and the engine
\* state (active flag, selection, hover target, handshake state, listeners,
\* timers, overlays) as they were; a command handled after it has the effect
\* it would have had without it.
C13_FailedApplyIsSilent ==
    /\ [](/\ lastMessage \in FailingApplies => (~threw /\ sent = <<>>)
          /\ winListeners # <<>> =>
                \A m \in FailingApplies :
                    LET s == Dispatch(Cur, m)
                    IN  /\ s = Cur
                        /\ \A n \in CommandMessages : Dispatch(s, n) = Dispatch(Cur, n))
    /\ [][lastMessage' \in FailingApplies => UNCHANGED engineVars]_vars

\* an enabled engine with a selection and an earlier style change handles
\* an APPLY_TEXT_CHANGE whose selector cannot be parsed
C13_Witness ==
    /\ lastMessage = Msg("APPLY_TEXT_CHANGE", TextPayload(Malformed))
    /\ isEditModeActive /\ selectedElement = "e1" /\ dom["e1"].style = "red"

IgnoredMessages ==
    {Msg(Null, NoPayload), Msg("SOMETHING_ELSE", NoPayload), Msg("SOMETHING_ELSE", PrimPayload)}
    \cup {Msg(ty, pl) : ty \in ApplyTypes,
                        pl \in {NoPayload, PrimPayload, ObjPayload([selector |-> ById("e1")])}}

\* C14 (as claimed): a message without a type, of a type outside the
\* dispatch table, or an apply command whose payload is absent or lacks the
\* command's fields, raises nothing and changes neither the engine state nor
\* the DOM.
C14_MalformedIgnored ==
    /\ lastMessage \in IgnoredMessages => (~threw /\ sent = <<>>)
    /\ winListeners # <<>> => \A m \in IgnoredMessages : Dispatch(Cur, m) = Cur

\* C15: an init where no window exists returns a handle that does nothing,
\* sends nothing, raises nothing and changes no engine variable, listener,
\* timer or flag; an init with a window that follows it on an engine that is
\* not initialized sets the flag, registers both listeners, starts the retry
\* timer and the timeout and returns the teardown handle.
C15_NoWindowNoOp ==
    /\ [](lastOp = "init_nowindow" =>
            /\ returned = "noop" /\ sent = <<>> /\ ~threw
            /\ ~initialized =>
                  LET s == initEditMode(Cur, TRUE)
                  IN  /\ s.initialized /\ s.returned = "cleanupFn"
                      /\ s.winListeners = <<MessageFn, AckFn>>
                      /\ \E i \in s.intervals : i.id = s.readyInterval
                      /\ \E x \in s.timeouts : x.at = now + READY_TIMEOUT_MS
                      /\ s.sent = IF readyAcknowledged THEN <<>>
                                  ELSE <<[type |-> "EDIT_MODE_READY", payload |-> NullInfo]>>)
    /\ [][lastOp' = "init_nowindow" => UNCHANGED engineVars]_vars

\* init without a window is the first call ever made
C15_Witness ==
    /\ lastOp = "init_nowindow" /\ ~initialized /\ cleanupFn = Null /\ winListeners = <<>>

\* C16: the document holds at most one highlight overlay node and at most
\* one selection overlay node, each there exactly when the engine holds a
\* reference to it, and the only step that takes an overlay node out of the
\* document is a teardown.
C16_OverlaySingletons ==
    /\ [](\A n \in {HIGHLIGHT_ID, SELECTION_ID} : bodyNodes[n] \in {0, 1})
    /\ [](/\ bodyNodes[HIGHLIGHT_ID] = 1 <=> highlightOverlay # NullNode
          /\ bodyNodes[SELECTION_ID] = 1 <=> selectionOverlay # NullNode)
    /\ [][\A n \in {HIGHLIGHT_ID, SELECTION_ID} :
            bodyNodes'[n] < bodyNodes[n] => lastOp' = "cleanup"]_vars

\* edit mode is enabled for the second time on an instance that was
\* initialized after a teardown: both nodes were created again, once
C16_Witness ==
    /\ lastOp = "EDIT_MODE_ENABLE" /\ initCount = 2
    /\ bodyNodes[HIGHLIGHT_ID] = 1 /\ bodyNodes[SELECTION_ID] = 1
    /\ selectedElement # Null

\* C17 (as claimed): while edit mode is enabled, a pointer-move that passes
\* the rate limit sends ELEMENT_HOVERED exactly when its target is no
\* overlay, not <html>, not <body>, and not the current hover target; the
\* target is then the hover target, the highlight overlay is shown on it and
\* the message carries its descriptor. (So a second ELEMENT_HOVERED for the
\* hover target needs the hover target to be cleared first.)
C17_HoverOnChange ==
    (isEditModeActive /\ Registered(docListeners, MoveListener)
                      /\ now - lastFrameTime >= FRAME_DELAY) =>
        \A t \in EventTargets :
            TargetExists(t) =>
                LET s == handleMouseMove(Cur, t)
                    fresh == /\ ~IsOverlay(t) /\ tagName(Cur, t) \notin {"HTML", "BODY"}
                             /\ t # lastHoveredElement
                IN  /\ (s.sent # <<>>) <=> fresh
                    /\ fresh => /\ s.lastHoveredElement = t
                                /\ s.highlightOverlay = [display |-> "block", rect |-> t]
                                /\ s.sent = <<[type |-> "ELEMENT_HOVERED",
                                               payload |-> getElementInfo(Cur, t)]>>

\* C18: a pointer-move or a pointer-leave changes neither the selected
\* element nor the selection overlay; a click or a CLEAR_SELECTION changes
\* neither the hover target nor the highlight overlay; and a pointer-leave
\* on an enabled engine leaves the hover target null and the highlight
\* overlay hidden and sends one ELEMENT_UNHOVERED.
C18_HoverSelectionIndependent ==
    /\ [](lastOp = "mouseleave" /\ isEditModeActive =>
            /\ lastHoveredElement = Null /\ highlightOverlay.display = "none"
            /\ sent = <<[type |-> "ELEMENT_UNHOVERED", payload |-> NullInfo]>>)
    /\ [][lastOp' \in {"mousemove", "mouseleave"} =>
            /\ UNCHANGED <<selectedElement, selectionOverlay>>
            /\ bodyNodes'[SELECTION_ID] = bodyNodes[SELECTION_ID]]_vars
    /\ [][lastOp' \in {"click", "CLEAR_SELECTION"} =>
            /\ UNCHANGED <<lastHoveredElement, highlightOverlay>>
            /\ bodyNodes'[HIGHLIGHT_ID] = bodyNodes[HIGHLIGHT_ID]]_vars

\* a click selects the element the pointer hovers over: hover target and
\* selection are the same element, each overlay shown on it
C18_Witness ==
    /\ lastOp = "click" /\ selectedElement = "e1" /\ lastHoveredElement = "e1"
    /\ highlightOverlay = [display |-> "block", rect |-> "e1"]
    /\ selectionOverlay = [display |-> "block", rect |-> "e1"]

\* the position of the first text node among the child nodes, 0 if none
FirstTextIndex(nodes) ==
    LET texts == {i \in 1..Len(nodes) : nodes[i].nodeType = 3}
    IN  IF texts = {} THEN 0 ELSE CHOOSE i \in texts : \A j \in texts : i <= j

\* C19: an APPLY_TEXT_CHANGE that matches an element with a direct text-node
\* child sets the data of the first such child and leaves the number, the
\* order and the content of all other child nodes as they were; when the
\* element has no direct text-node child its child nodes are replaced by
\* the new text; no other element changes.
C19_FirstTextNodeReplaced ==
    [][\A x \in {"new", ""} :
         Receive(Msg("APPLY_TEXT_CHANGE", ObjPayload([selector |-> ById("e1"), newText |-> x]))) =>
            LET old == dom["e1"].childNodes
                new == dom'["e1"].childNodes
                i == FirstTextIndex(old)
            IN  /\ i # 0 => /\ Len(new) = Len(old)
                            /\ new[i] = TextNode(x)
                            /\ \A j \in 1..Len(old) : j # i => new[j] = old[j]
                /\ i = 0 => new = IF x = "" THEN <<>> ELSE <<TextNode(x)>>
                /\ \A e \in DOMAIN dom \ {"e1"} : dom'[e] = dom[e]
                /\ dom'["e1"] = [dom["e1"] EXCEPT !.childNodes = new]]_vars

\* the text of <div id="e1"><span>in</span>old old</div> was changed: the
\* element child before the first text node and the text node after it are
\* as they were
C19_Witness ==
    /\ lastMessage \in TextMessages
    /\ dom["e1"].childNodes = <<ElementNode("e2"), TextNode("new"), TextNode("old")>>

UniqueIds ==
    \A a, b \in DOMAIN dom : (a # b /\ dom[a].id # "") => dom[a].id # dom[b].id

\* the elements under <body>, the overlay nodes in the document included
UnderBody == {e \in ContentElements : parentNode(Cur, e) # Null} \cup
             {n \in {HIGHLIGHT_ID, SELECTION_ID} : bodyNodes[n] > 0}

SkippedTargets == {t \in EventTargets : IsOverlay(t) \/ tagName(Cur, t) \in {"HTML", "BODY"}}

\* C21 (as claimed): a pointer-move whose target is an overlay, <html> or
\* <body> sends nothing and leaves the whole engine state as it was, the
\* hover target, the highlight overlay and the rate-limit timestamp
\* included, so that a pointer-move on a content element that follows it,
\* at any later instant, has the result it would have had without it.
C21_SkippedMoveIgnored ==
    Registered(docListeners, MoveListener) =>
        \A t \in SkippedTargets :
            TargetExists(t) =>
                LET s == handleMouseMove(Cur, t)
                IN  /\ s = Cur
                    /\ \A e \in ContentElements : \A dt \in {0, 6, 10, 16} :
                          handleMouseMove([s EXCEPT !.now = @ + dt], e)
                            = handleMouseMove([Cur EXCEPT !.now = @ + dt], e)

\* C22 (as claimed): whenever a selection overlay node exists, it is
\* visible exactly when an element is selected, across teardown followed by
\* re-init and enable too.
C22_OverlayVisibleIffSelected ==
    (selectionOverlay # NullNode /\ bodyNodes[SELECTION_ID] = 1) =>
        (selectionOverlay.display = "block" <=> selectedElement # Null)

\* The half of C22 that the code keeps: a visible selection overlay always
\* has a selected element.
C22_VisibleOnlyIfSelected ==
    (selectionOverlay # NullNode /\ bodyNodes[SELECTION_ID] = 1) =>
        (selectionOverlay.display = "block" => selectedElement # Null)

\* C23 (as claimed): at most one retry timer is live at any time, and the
\* 30 s timeout that an init scheduled stops only the retry loop of that
\* init: the retry timer of the latest init stays live until that init is
\* acknowledged or torn down, or 30 s have passed since it.
C23_TimeoutOwnsItsLoop ==
    /\ Cardinality(intervals) <= 1
    /\ \A i \in intervals : i.id = readyInterval
    /\ (initialized /\ ~ackSinceInit /\ now < initAt + READY_TIMEOUT_MS)
          => \E i \in intervals : i.id = readyInterval

\* The half of C23 that the code keeps: never more than one live retry timer,
\* and it is the one that readyInterval holds.
C23_OneRetryTimer ==
    /\ Cardinality(intervals) <= 1
    /\ \A i \in intervals : i.id = readyInterval

====
